---------------------------- MODULE Spec2Model ----------------------------
(***************************************************************************)
(* Model of the EEPROM driver of src/eeprom.cpp: the constructor, the      *)
(* bounds check, the address translation, the byte / paged array writer,   *)
(* the random / sequential readers, clear() and ready(), running against   *)
(* an I2C bus whose devices acknowledge or refuse each transaction.        *)
(*                                                                         *)
(* The bus side is a memory of cells <<device address byte, word address>> *)
(* : whatever answers at a device address keeps the bytes written there.   *)
(* Cells never written hold Fill(cell).  A transaction is refused (NACK)   *)
(* when its ordinal within the running operation is in the set the         *)
(* environment picked for that operation.                                  *)
(***************************************************************************)
EXTENDS Integers, Sequences, FiniteSets, TLC

\* ------------------------------------------------------------ constants
\* enum TypeEeprom (eeprom.h): each value is the size in bytes (line 146-147),
\* T24C1025 being T24C1024 + 1 so that the two switch labels differ.
T24C01 == 128
T24C02 == 256
T24C04 == 512
T24C08 == 1024
T24C16 == 2048
T24C32 == 4096
T24C64 == 8192
T24C128 == 16384
T24C256 == 32768
T24C512 == 65536
T24C1024 == 131072
T24C1025 == 131073
M24M02 == 262144

TypeEeprom ==
  {T24C01, T24C02, T24C04, T24C08, T24C16, T24C32, T24C64, T24C128, T24C256,
   T24C512, T24C1024, T24C1025, M24M02}

\* error codes and the device-type prefix of the bus address (eeprom.h)
EEPROM_NoError == 0
EEPROM_BadAddress == 1
EEPROM_I2cError == 2
EEPROM_ParamError == 3
EEPROM_OutOfRange == 4
EEPROM_MallocError == 5
EEPROM_Address == 160

\* widths of the C integer types
U8 == 256
U16 == 65536

\* ------------------------------------------------------------ bit helpers
RECURSIVE BitOr(_, _)
BitOr(x, y) ==
  IF x = 0 THEN y
  ELSE IF y = 0 THEN x
  ELSE (IF (x % 2 = 1) \/ (y % 2 = 1) THEN 1 ELSE 0) + 2 * BitOr(x \div 2, y \div 2)

RECURSIVE BitAnd(_, _)
BitAnd(x, y) ==
  IF x = 0 \/ y = 0 THEN 0
  ELSE (IF (x % 2 = 1) /\ (y % 2 = 1) THEN 1 ELSE 0) + 2 * BitAnd(x \div 2, y \div 2)

RECURSIVE Pow2(_)
Pow2(n) == IF n = 0 THEN 1 ELSE 2 * Pow2(n - 1)

Shl(x, n) == x * Pow2(n)
Shr(x, n) == x \div Pow2(n)

\* A uint32_t is held as the 32-bit two's-complement integer with the same
\* bits: 0 .. 2^31-1 as themselves, 2^31 .. 2^32-1 as the negative numbers
\* -2^31 .. -1.  The conversion to int32_t then leaves the number as it is.
ULo(x) == x % U16
UHi(x) == ((x - ULo(x)) \div U16) % U16
Word(hi, lo) == (IF hi >= U16 \div 2 THEN hi - U16 ELSE hi) * U16 + lo
Add32(x, y) ==
  LET lo == ULo(x) + ULo(y)
      hi == (UHi(x) + UHi(y) + lo \div U16) % U16
  IN  Word(hi, lo % U16)
Sub32(x, y) ==
  LET lo == ULo(x) - ULo(y)
      hi == (UHi(x) - UHi(y) - (IF lo < 0 THEN 1 ELSE 0)) % U16
  IN  Word(hi, lo % U16)
\* unsigned x >= y, x / p, x % p for 0 <= y and a divisor p that leaves
\* 2^16 % p <= 1 (a power of two up to 2^16, 255 or 65535)
UGe(x, y) == x < 0 \/ x >= y
UDiv(x, p) ==
  IF x >= 0 THEN x \div p
  ELSE UHi(x) * (U16 \div p) + ((UHi(x) * (U16 % p) + ULo(x)) \div p)
UMod(x, p) ==
  IF x >= 0 THEN x % p
  ELSE (UHi(x) * (U16 % p) + ULo(x)) % p
ToInt32(x) == x
\* 0xFFFFFFFF
UMax == 0 - 1

Min(x, y) == IF x < y THEN x ELSE y
Max(x, y) == IF x > y THEN x ELSE y


\* ------------------------------------------------------------ bounds
\* operations one device instance performs after construction
MaxOps == 1
\* largest chip-select value handed to the constructor
MaxCs == 8
\* refused polls before the device acknowledges the ready poll
MaxBusy == 1
\* clear() is run on the variants of at most this many bytes
MaxClearSize == 512
\* reads hand back at most this many bytes
MaxReadLen == 2048

\* ------------------------------------------------------------ state
VARIABLES
  pc,                  \* "new" before construction, "idle" between calls,
                       \* "hung" inside a call that never returns
  _type, _address, _page_write, _page_block_number, _size, _errnum,
  mem,                 \* bus memory: <<device byte, page>> -> the page's bytes
  ptr,                 \* internal address counter of each device byte
  bus,                 \* the transactions of the last operation, in order
  errs,                \* the values the last operation assigned to _errnum
  ret,                 \* what the last operation handed back to its caller
  op,                  \* the last operation and its arguments
  mem0, err0,          \* memory and error state when the last operation began
  nops                 \* operations performed since construction

vars ==
  <<pc, _type, _address, _page_write, _page_block_number, _size, _errnum,
    mem, ptr, bus, errs, ret, op, mem0, err0, nops>>

\* ------------------------------------------------------------ the bus side
\* contents of a cell nobody has written yet
Fill(c) == (3 * c[1] + 5 * c[2] + 17) % U8

\* The memory keeps, for every page <<device byte, page number>> written so
\* far, the bytes of the page; MemAt(m, c) is the byte in cell c = <<device
\* byte, word address>>.
PageOf(c) == <<c[1], c[2] \div _page_write>>
PageAt(m, pg) ==
  IF pg \in DOMAIN m THEN m[pg]
  ELSE [j \in 0..(_page_write - 1) |-> Fill(<<pg[1], pg[2] * _page_write + j>>)]
MemAt(m, c) ==
  IF PageOf(c) \in DOMAIN m THEN m[PageOf(c)][c[2] % _page_write] ELSE Fill(c)

PtrAt(p, dev) == IF dev \in DOMAIN p THEN p[dev] ELSE 0

\* bytes a caller's array holds: either the pattern of a seed, or the listed
\* bytes b[0] .. b[n-1]
Data(seed, k) == (seed + 13 * k) % U8
Pattern(seed) == [seed |-> seed, b |-> <<>>]
Bytes(b) == [seed |-> 0 - 1, b |-> b]
DataAt(data, k) == IF data.seed >= 0 THEN Data(data.seed, k) ELSE data.b[k]

\* a byte of an automatic array that was never assigned
Junk == {0, 165}

\* marks a caller's byte the operation did not store into
Untouched == 0 - 1

\* word address the device decodes from the address bytes of a transaction
WordOf(wa) == IF Len(wa) = 1 THEN wa[1] ELSE wa[1] * U8 + wa[2]

\* bytes one block holds: the span of the word address
BlockSpan(wlen) == IF wlen = 1 THEN U8 ELSE U16

\* cell that byte k of a page write starting at word address w lands in:
\* the counter wraps inside the page
PageCell(dev, w, k) ==
  <<dev, (w - (w % _page_write)) + (((w % _page_write) + k) % _page_write)>>

\* cell that byte k of a sequential read starting at word address w comes
\* from: the counter carries into the block-select bits of the device byte
SeqCell(dev, w, k, wlen) ==
  <<(dev + 2 * ((w + k) \div BlockSpan(wlen))) % U8, (w + k) % BlockSpan(wlen)>>

\* ------------------------------------------------------------ constructor
\* The constructor as it would be if the T24C16 case checked the chip-select
\* value like its neighbours: ConstructionFault tells the two apart.
EEPROMChecking16(address, type) ==
  LET bad(limit) == IF address > limit THEN EEPROM_BadAddress ELSE EEPROM_NoError
      size == IF type = T24C1025 THEN T24C1024 ELSE type
      f(err, adr, page, blocks) ==
        [errnum |-> err, address |-> adr % U8, page_write |-> page,
         page_block_number |-> blocks, size |-> size]
  IN  CASE type \in {T24C01, T24C02} -> f(bad(7), Shl(address, 1), 8, 1)
        [] type = T24C04 -> f(bad(7), Shl(BitAnd(address, 254), 1), 16, 2)
        [] type = T24C08 -> f(bad(7), Shl(BitAnd(address, 252), 1), 16, 4)
        [] type = T24C16 -> f(bad(7), 0, 16, 8)
        [] type \in {T24C32, T24C64} -> f(bad(7), Shl(address, 1), 32, 1)
        [] type \in {T24C128, T24C256} -> f(bad(7), Shl(address, 1), 64, 1)
        [] type = T24C512 -> f(bad(7), Shl(address, 1), 128, 1)
        [] type = T24C1024 -> f(bad(3), Shl(BitAnd(address, 254), 1), 128, 2)
        [] type = T24C1025 -> f(bad(3), Shl(address, 1), 128, 2)
        [] type = M24M02 -> f(bad(1), Shl(address, 3), 256, 4)

\* EEPROM::EEPROM: the fields the constructor leaves for chip-select value
\* address and variant type
EEPROM(address, type) ==
  LET bad(limit) == IF address > limit THEN EEPROM_BadAddress ELSE EEPROM_NoError
      size == IF type = T24C1025 THEN T24C1024 ELSE type
      f(err, adr, page, blocks) ==
        [errnum |-> err, address |-> adr % U8, page_write |-> page,
         page_block_number |-> blocks, size |-> size]
  IN  CASE type \in {T24C01, T24C02} -> f(bad(7), Shl(address, 1), 8, 1)
        [] type = T24C04 -> f(bad(7), Shl(BitAnd(address, 254), 1), 16, 2)
        [] type = T24C08 -> f(bad(7), Shl(BitAnd(address, 252), 1), 16, 4)
        [] type = T24C16 -> f(EEPROM_NoError, 0, 16, 8)
        [] type \in {T24C32, T24C64} -> f(bad(7), Shl(address, 1), 32, 1)
        [] type \in {T24C128, T24C256} -> f(bad(7), Shl(address, 1), 64, 1)
        [] type = T24C512 -> f(bad(7), Shl(address, 1), 128, 1)
        [] type = T24C1024 -> f(bad(3), Shl(BitAnd(address, 254), 1), 128, 2)
        [] type = T24C1025 -> f(bad(3), Shl(address, 1), 128, 2)
        [] type = M24M02 -> f(bad(1), Shl(address, 3), 256, 4)

\* ------------------------------------------------------------ bounds check
\* The bounds check as it would be if T24C1025 stopped one byte below the
\* size getSize reports: SingleAddressBound tells the two apart.
checkAddressShort1025(address) ==
  IF _type = T24C1025 THEN ~UGe(address, T24C1024 - 1)
  ELSE IF _type = M24M02 THEN ~UGe(address, M24M02 - 1)
  ELSE ~UGe(address, _type)

\* EEPROM::checkAddress
checkAddress(address) ==
  CASE _type = T24C01 -> ~UGe(address, T24C01)
    [] _type = T24C02 -> ~UGe(address, T24C02)
    [] _type = T24C04 -> ~UGe(address, T24C04)
    [] _type = T24C08 -> ~UGe(address, T24C08)
    [] _type = T24C16 -> ~UGe(address, T24C16)
    [] _type = T24C32 -> ~UGe(address, T24C32)
    [] _type = T24C64 -> ~UGe(address, T24C64)
    [] _type = T24C128 -> ~UGe(address, T24C128)
    [] _type = T24C256 -> ~UGe(address, T24C256)
    [] _type = T24C512 -> ~UGe(address, T24C512)
    [] _type = T24C1024 -> ~UGe(address, T24C1024)
    [] _type = T24C1025 -> ~UGe(address, T24C1025 - 1)
    [] _type = M24M02 -> ~UGe(address, M24M02 - 1)

\* EEPROM::getSize, EEPROM::getError
getSize == _size
getError == _errnum

\* ------------------------------------------------------------ translation
\* The block index as it would be if the page size picked the stride:
\* TranslationByVariant tells the two apart.
PageBlockByPageSize(address) ==
  IF _page_write < 32 THEN UDiv(address, 255) % U8
  ELSE IF _page_write > 128 THEN UDiv(address, 65535) % U8
  ELSE 0

\* "Compute page block": block index (uint8_t) of a logical address
PageBlock(address) ==
  IF _type < T24C32 THEN UDiv(address, 255) % U8
  ELSE IF _type > T24C512 THEN UDiv(address, 65535) % U8
  ELSE 0

\* the address left in the local variable after "address %= stride"
BlockAddress(address) ==
  IF _type < T24C32 THEN UMod(address, 255)
  ELSE IF _type > T24C512 THEN UMod(address, 65535)
  ELSE address

\* block stride of the variant's translation, 0 for a single-block variant
Stride == IF _type < T24C32 THEN 255 ELSE IF _type > T24C512 THEN 65535 ELSE 0

\* some logical address of the variant resolves to a block other than 0
MultiBlock == Stride # 0 /\ Stride < _size

\* "Device address": the byte sent on the bus (uint8_t addr)
DeviceAddress(page_block) ==
  BitOr(BitOr(EEPROM_Address, _address), Shl(page_block, 1)) % U8

\* number of word-address bytes (len)
AddrLen == IF _type < T24C32 THEN 1 ELSE 2

\* the address part of cmd: cmd[l] = (uint8_t)(a >> (8 * (len - l - 1)))
CmdAddress(a) == [l \in 1..AddrLen |-> Shr(ULo(a), 8 * (AddrLen - l)) % U8]

\* ------------------------------------------------------------ transactions
\* The running call: d.err is _errnum, d.mem and d.ptr the bus side, d.bus
\* the transactions issued so far, d.n how many of them carried or fetched
\* bytes, d.ack the code the last one returned, d.out what the last read
\* stored, d.hung whether the call entered a loop it never leaves.  d.F,
\* d.busy and d.junk are the environment of the call: the ordinals of the
\* transactions the bus refuses, the refused polls before each acknowledged
\* one, and the value of unassigned stack bytes.  d.errs lists the values
\* assigned to _errnum so far.
Call(F, busy, junk) ==
  [err |-> _errnum, mem |-> mem, ptr |-> ptr, bus |-> <<>>, n |-> 0, ack |-> 0,
   out |-> <<>>, hung |-> FALSE, errs |-> <<>>, F |-> F, busy |-> busy,
   junk |-> junk]

\* _errnum = e
SetErr(d, e) == [d EXCEPT !.err = e, !.errs = Append(@, e)]

\* _i2c.write(dev, cmd, Len(wa) + n): address bytes wa, then the n data
\* bytes data[0] .. data[n-1]
I2cWrite(d, dev, wa, data, n) ==
  LET k == d.n + 1
      nack == k \in d.F
      w == WordOf(wa)
      pg == PageOf(<<dev, w>>)
      old == PageAt(d.mem, pg)
      \* byte j of the page is data byte (j - w) mod page size, if that many came
      new == [j \in 0..(_page_write - 1) |->
                IF (j - w) % _page_write < n THEN data[(j - w) % _page_write]
                ELSE old[j]]
      entry == [kind |-> "write", dev |-> dev, wa |-> wa, n |-> n,
                ack |-> IF nack THEN 1 ELSE 0]
  IN  IF nack
      THEN [d EXCEPT !.n = k, !.ack = 1, !.bus = Append(@, entry)]
      ELSE [d EXCEPT !.n = k, !.ack = 0, !.bus = Append(@, entry),
                     !.mem = IF n = 0 THEN @ ELSE (pg :> new) @@ @,
                     !.ptr = (dev :> PageCell(dev, w, n)[2]) @@ @]

\* _i2c.read(dev, data, size): size bytes from the device's address counter
I2cRead(d, dev, size) ==
  LET k == d.n + 1
      nack == k \in d.F
      w == PtrAt(d.ptr, dev)
      entry == [kind |-> "read", dev |-> dev, wa |-> <<>>, n |-> size,
                ack |-> IF nack THEN 1 ELSE 0]
  IN  IF nack
      THEN [d EXCEPT !.n = k, !.ack = 1, !.bus = Append(@, entry)]
      ELSE [d EXCEPT !.n = k, !.ack = 0, !.bus = Append(@, entry),
                     !.out = [j \in 0..(size - 1) |->
                                MemAt(d.mem, SeqCell(dev, w, j, AddrLen))],
                     !.ptr = (dev :> SeqCell(dev, w, size, AddrLen)[2]) @@ @]

\* one zero-length addressed write of the ready loop
Poll(dev, ack) == [kind |-> "poll", dev |-> dev, wa |-> <<>>, n |-> 0, ack |-> ack]

\* ------------------------------------------------------------ ready
\* EEPROM::ready: poll until the device acknowledges
ready(d) ==
  IF d.err # EEPROM_NoError THEN d
  ELSE LET addr == BitOr(EEPROM_Address, _address) % U8
       IN  [d EXCEPT !.bus = @ \o [j \in 1..d.busy |-> Poll(addr, 1)]
                                \o <<Poll(addr, 0)>>]

\* ------------------------------------------------------------ readers
\* EEPROM::read(uint32_t address, int8_t *data, uint32_t size); d.out is
\* assigned only when the bus read succeeded
read(d, address, size) ==
  IF d.err # EEPROM_NoError THEN d
  ELSE IF ~checkAddress(address) THEN SetErr(d, EEPROM_OutOfRange)
  ELSE IF ~checkAddress(Sub32(Add32(address, size), 1)) THEN SetErr(d, EEPROM_OutOfRange)
  ELSE LET addr == DeviceAddress(PageBlock(address))
           d1 == I2cWrite(d, addr, CmdAddress(BlockAddress(address)), <<>>, 0)
       IN  IF d1.ack # 0 THEN SetErr(d1, EEPROM_I2cError)
           ELSE LET d2 == I2cRead(d1, addr, size)
                IN  IF d2.ack # 0 THEN SetErr(d2, EEPROM_I2cError) ELSE d2

\* EEPROM::read(uint32_t address, int8_t &data)
readByte(d, address) ==
  IF d.err # EEPROM_NoError THEN d
  ELSE IF ~checkAddress(address) THEN SetErr(d, EEPROM_OutOfRange)
  ELSE LET addr == DeviceAddress(PageBlock(address))
           d1 == I2cWrite(d, addr, CmdAddress(BlockAddress(address)), <<>>, 0)
       IN  IF d1.ack # 0 THEN SetErr(d1, EEPROM_I2cError)
           ELSE LET d2 == I2cRead(d1, addr, 1)
                IN  IF d2.ack # 0 THEN SetErr(d2, EEPROM_I2cError) ELSE d2

\* The current address read without its entry check: FaultedInert tells
\* the two apart.
readCurrentUnchecked(d) ==
  LET d2 == I2cRead(d, BitOr(EEPROM_Address, _address) % U8, 1)
  IN  IF d2.ack # 0 THEN SetErr(d2, EEPROM_I2cError) ELSE d2

\* EEPROM::read(int8_t &data): current address read
readCurrent(d) ==
  IF d.err # EEPROM_NoError THEN d
  ELSE LET d2 == I2cRead(d, BitOr(EEPROM_Address, _address) % U8, 1)
       IN  IF d2.ack # 0 THEN SetErr(d2, EEPROM_I2cError) ELSE d2

\* ------------------------------------------------------------ writers
\* EEPROM::write(uint32_t address, int8_t data)
writeByte(d, address, data) ==
  IF d.err # EEPROM_NoError THEN d
  ELSE IF ~checkAddress(address) THEN SetErr(d, EEPROM_OutOfRange)
  ELSE LET addr == DeviceAddress(PageBlock(address))
           d1 == I2cWrite(d, addr, CmdAddress(BlockAddress(address)),
                          [j \in {0} |-> data], 1)
       IN  IF d1.ack # 0 THEN SetErr(d1, EEPROM_I2cError) ELSE ready(d1)

\* number of page chunks (uint8_t blocs) the array write loops over
Blocs(address, length) ==
  LET offset == UMod(address, _page_write)
      total == Add32(length, offset)
      blocs == UDiv(total, _page_write) % U8
      remain == (ULo(total) - blocs * _page_write) % U16
  IN  IF remain # 0 THEN (blocs + 1) % U8 ELSE blocs

\* The splice loop as it would be without the bound at the end of the page:
\* PageRespecting tells the two apart.
SpliceCountPastPage(page_offset, bytes_to_write) ==
  Min(Max(bytes_to_write, 0), U8 - 1)

\* iterations of the splice loop
\*   for (j = 0; (j < _page_write - page_offset) && (j < bytes_to_write); j++)
\* with uint8_t j: -1 when no value of j ends it
SpliceCount(page_offset, bytes_to_write) ==
  LET room == _page_write - page_offset
      stop == Min(room, Max(bytes_to_write, 0))
  IN  IF stop > U8 - 1 THEN 0 - 1 ELSE stop

\* marks the last transaction of d as the page write of the chunk at logical
\* address a (the value of address at the top of the loop pass), whose
\* buffer took cnt of the caller's bytes from position at of its data part
Chunk(d, a, at, cnt) ==
  [d EXCEPT !.bus[Len(d.bus)] = [la |-> a, at |-> at, cnt |-> cnt] @@ @]

\* One pass of the chunk loop of the array write, lines 287-341, on the
\* loop state st: st.d the call, st.w the locals (w.cmd is the data part of
\* cmd, cmd + len), st.data the caller's array, st.done set once the loop
\* was left (i < blocs false, a return, or the splice loop never ending).
WriteChunk(st) ==
  LET d == st.d
      w == st.w
  IN
  IF st.done \/ ~(w.i < w.blocs) THEN [st EXCEPT !.done = TRUE]
  ELSE
    LET page_block == PageBlock(w.address)
        address == BlockAddress(w.address)
        addr == DeviceAddress(page_block)
        page_offset == UMod(address, _page_write)
        wa == CmdAddress(Sub32(address, page_offset))
        partial == page_offset # 0 \/ w.bytes_to_write < _page_write
        d1 == IF partial THEN read(d, Sub32(address, page_offset), _page_write) ELSE d
        \* the read stores into cmd + len only when it reached the bus read
        cmd1 == IF partial /\ d1.n = d.n + 2 /\ d1.ack = 0 THEN d1.out ELSE w.cmd
        cnt == SpliceCount(page_offset, w.bytes_to_write)
    IN  IF cnt < 0 THEN [st EXCEPT !.d = [d1 EXCEPT !.hung = TRUE], !.done = TRUE]
        ELSE
          LET cmd2 == [j \in 0..(_page_write - 1) |->
                         IF j >= page_offset /\ j < page_offset + cnt
                         THEN DataAt(st.data, w.written_cnt + j - page_offset)
                         ELSE cmd1[j]]
              d2 == Chunk(I2cWrite(d1, addr, wa, cmd2, _page_write),
                          w.address, page_offset, cnt)
          IN  IF d2.ack # 0
              THEN [st EXCEPT !.d = SetErr(d2, EEPROM_I2cError), !.done = TRUE]
              ELSE
                LET d3 == ready(d2)
                    written_cnt == Add32(w.written_cnt, _page_write - page_offset)
                IN  [st EXCEPT
                       !.d = d3,
                       !.w = [w EXCEPT !.i = (@ + 1) % U8,
                                       !.cmd = cmd2,
                                       !.written_cnt = written_cnt,
                                       !.address = Add32(w.start_address, written_cnt),
                                       !.bytes_to_write =
                                          ToInt32(Sub32(w.length, written_cnt))]]

\* n passes of the chunk loop, one after the other, up to the pass that
\* leaves the loop
RECURSIVE WriteChunks(_, _)
WriteChunks(st, n) ==
  IF n = 0 THEN st
  ELSE IF n = 1 THEN WriteChunk(st)
  ELSE LET half == WriteChunks(st, n \div 2)
       IN  IF half.done THEN half ELSE WriteChunks(half, n - (n \div 2))

\* The array write without its entry check: FaultFirstWins tells the two
\* apart.
writeUnchecked(d, address, data, length) ==
  IF ~checkAddress(address) THEN SetErr(d, EEPROM_OutOfRange)
  ELSE IF ~checkAddress(Sub32(Add32(address, length), 1)) THEN SetErr(d, EEPROM_OutOfRange)
  ELSE WriteChunks(
         [d |-> d, data |-> data, done |-> FALSE,
          w |-> [i |-> 0, blocs |-> Blocs(address, length), address |-> address,
                 start_address |-> address, length |-> length, written_cnt |-> 0,
                 bytes_to_write |-> ToInt32(length),
                 cmd |-> [j \in 0..(_page_write - 1) |-> d.junk]]],
         Blocs(address, length)).d

\* The array write undoing its page writes when one of them is refused:
\* NoRollback tells the two apart.
writeRollingBack(d, address, data, length) ==
  LET r == writeUnchecked(d, address, data, length)
  IN  IF d.err # EEPROM_NoError THEN d
      ELSE IF r.ack # 0 THEN [r EXCEPT !.mem = d.mem] ELSE r

\* EEPROM::write(uint32_t address, int8_t data[], uint32_t length)
write(d, address, data, length) ==
  IF d.err # EEPROM_NoError THEN d
  ELSE IF ~checkAddress(address) THEN SetErr(d, EEPROM_OutOfRange)
  ELSE IF ~checkAddress(Sub32(Add32(address, length), 1)) THEN SetErr(d, EEPROM_OutOfRange)
  ELSE WriteChunks(
         [d |-> d, data |-> data, done |-> FALSE,
          w |-> [i |-> 0, blocs |-> Blocs(address, length), address |-> address,
                 start_address |-> address, length |-> length, written_cnt |-> 0,
                 bytes_to_write |-> ToInt32(length),
                 cmd |-> [j \in 0..(_page_write - 1) |-> d.junk]]],
         Blocs(address, length)).d

\* memcpy(cmd, &data, n): the n bytes of a scalar in the host's layout
\* (little-endian)
ScalarBytes(v, n) == [k \in 0..(n - 1) |-> Shr(v, 8 * k) % U8]

\* EEPROM::write(uint32_t address, int16_t data)
writeShort(d, address, v) ==
  IF d.err # EEPROM_NoError THEN d
  ELSE IF ~checkAddress(Add32(address, 1)) THEN SetErr(d, EEPROM_OutOfRange)
  ELSE write(d, address, Bytes(ScalarBytes(v, 2)), 2)

\* EEPROM::write(uint32_t address, int32_t data) and
\* EEPROM::write(uint32_t address, float data): v is the 32-bit pattern
writeLong(d, address, v) ==
  IF d.err # EEPROM_NoError THEN d
  ELSE IF ~checkAddress(Add32(address, 3)) THEN SetErr(d, EEPROM_OutOfRange)
  ELSE write(d, address, Bytes(ScalarBytes(v, 4)), 4)

writeFloat(d, address, v) ==
  IF d.err # EEPROM_NoError THEN d
  ELSE IF ~checkAddress(Add32(address, 3)) THEN SetErr(d, EEPROM_OutOfRange)
  ELSE write(d, address, Bytes(ScalarBytes(v, 4)), 4)

\* EEPROM::write(uint32_t address, void *data, uint32_t size); alloc tells
\* whether malloc returned a buffer
writeAny(d, address, data, size, alloc) ==
  IF d.err # EEPROM_NoError THEN d
  ELSE IF ~checkAddress(Sub32(Add32(address, size), 1)) THEN SetErr(d, EEPROM_OutOfRange)
  ELSE IF ~alloc THEN SetErr(d, EEPROM_MallocError)
  ELSE write(d, address, data, size)

\* EEPROM::clear: n passes of its loop from the loop state st = [d, i]
RECURSIVE clearPasses(_, _)
clearPasses(st, n) ==
  IF n = 0 THEN st
  ELSE IF n = 1
       THEN IF ~(st.i < _size \div 4) THEN st
            ELSE [d |-> writeLong(st.d, st.i * 4, 0), i |-> st.i + 1]
  ELSE LET half == clearPasses(st, n \div 2)
       IN  IF ~(half.i < _size \div 4) THEN half
           ELSE clearPasses(half, n - (n \div 2))

clear(d) == clearPasses([d |-> d, i |-> 0], _size \div 4).d

\* ------------------------------------------------------------ what a read hands back
\* the n bytes of the caller's variable after a scalar or raw read:
\* memcpy(&data, cmd, n) copies the scratch array, assigned or not
Copied(d0, d, n) ==
  IF d.n = d0.n + 2 /\ d.ack = 0 THEN d.out
  ELSE [k \in 0..(n - 1) |-> d.junk]

NotStored(n) == [k \in 0..(n - 1) |-> Untouched]

\* the caller's buffer after a read that stores straight into it
Stored(d0, d, n) ==
  IF d.n > d0.n /\ d.ack = 0 /\ d.bus[Len(d.bus)].kind = "read" THEN d.out
  ELSE NotStored(n)

\* EEPROM::read(uint32_t address, int16_t &data), (.., int32_t &data),
\* (.., float &data): n is the width; the result is <<call, caller's bytes>>
readScalar(d, address, n) ==
  IF d.err # EEPROM_NoError THEN <<d, NotStored(n)>>
  ELSE IF ~checkAddress(Sub32(Add32(address, n), 1))
       THEN <<SetErr(d, EEPROM_OutOfRange), NotStored(n)>>
  ELSE LET d1 == read(d, address, n) IN <<d1, Copied(d, d1, n)>>

\* EEPROM::read(uint32_t address, void *data, uint32_t size)
readAny(d, address, size, alloc) ==
  IF d.err # EEPROM_NoError THEN <<d, NotStored(size)>>
  ELSE IF ~checkAddress(Sub32(Add32(address, size), 1))
       THEN <<SetErr(d, EEPROM_OutOfRange), NotStored(size)>>
  ELSE IF ~alloc THEN <<SetErr(d, EEPROM_MallocError), NotStored(size)>>
  ELSE LET d1 == read(d, address, size) IN <<d1, Copied(d, d1, size)>>

\* ------------------------------------------------------------ inputs
\* start addresses handed to the single-address operations
Addresses ==
  {0, _size - 1, _size} \cup (IF MultiBlock THEN {Stride} ELSE {})

\* start addresses handed to the scalar operations
ScalarAddresses ==
  {0, _size - 4, _size - 1} \cup (IF MultiBlock THEN {Stride - 1} ELSE {})

\* <<address, length>> handed to the array operations
Spans ==
  {<<0, 0>>, <<10, 0>>, <<0, 1>>, <<10, 20>>, <<0, _page_write>>, <<0, _size>>,
   <<_size - 1, 1>>, <<_size - 1, 2>>, <<_size, 1>>, <<5, UMax>>}
  \cup (IF MultiBlock THEN {<<Stride - 5, 10>>, <<Stride + 45, 1>>} ELSE {})

\* reads hand back at most this many bytes
ReadSpans == {s \in Spans : s[2] >= 0 /\ s[2] <= MaxReadLen}

\* the span the refused-transaction runs use: two chunks, both partial
ProbeSpan == <<10, 20>>

\* seeds of the byte patterns and the scalar values callers write
Seeds == {1}
Scalars == {305419896}

\* sets of transaction ordinals the bus refuses within one call
Refusals == {{1}, {2}, {3}, {1, 2}, {2, 3}, {6}}

Env(F, busy, junk) == [F |-> F, busy |-> busy, junk |-> junk]

\* the bus acknowledges everything at once
OkEnv == Env({}, 0, 0)
\* the bus refuses some transaction, or 1 .. MaxBusy ready polls
FailEnvs ==
  {Env(F, 0, j) : F \in Refusals, j \in Junk} \cup {Env({}, b, 0) : b \in 1..MaxBusy}

\* <<argument, environment>> pairs of an operation: every argument of Args
\* on an acknowledging bus, the arguments of Probes on a refusing one
Cases(Args, Probes) == (Args \X {OkEnv}) \cup (Probes \X FailEnvs)

Start(e) == Call(e.F, e.busy, e.junk)

\* ------------------------------------------------------------ actions
Init ==
  /\ pc = "new"
  /\ _type = 0 /\ _address = 0 /\ _page_write = 0 /\ _page_block_number = 0
  /\ _size = 0 /\ _errnum = EEPROM_NoError
  /\ mem = <<>> /\ ptr = <<>> /\ bus = <<>> /\ errs = <<>> /\ ret = <<>>
  /\ op = [name |-> "none", address |-> 0, length |-> 0, data |-> Pattern(0)]
  /\ mem0 = <<>> /\ err0 = EEPROM_NoError /\ nops = 0

\* EEPROM::EEPROM(sda, scl, address, type)
Construct(ChipSelects) ==
  /\ pc = "new"
  /\ \E type \in TypeEeprom, address \in ChipSelects :
       LET o == EEPROM(address, type)
       IN  /\ _type' = type
           /\ _address' = o.address
           /\ _page_write' = o.page_write
           /\ _page_block_number' = o.page_block_number
           /\ _size' = o.size
           /\ _errnum' = o.errnum
           /\ errs' = IF o.errnum = EEPROM_NoError THEN <<EEPROM_NoError>>
                      ELSE <<EEPROM_NoError, o.errnum>>
           /\ op' = [name |-> "EEPROM", address |-> address, length |-> 0,
                     data |-> Pattern(0)]
  /\ pc' = "idle"
  /\ UNCHANGED <<mem, ptr, bus, ret, mem0, err0, nops>>

\* the state a call that returned d, gave the caller r and was op o leaves
Finish(d, r, o) ==
  /\ pc' = IF d.hung THEN "hung" ELSE "idle"
  /\ _errnum' = d.err
  /\ mem' = d.mem
  /\ ptr' = d.ptr
  /\ bus' = d.bus
  /\ errs' = d.errs
  /\ ret' = r
  /\ op' = o
  /\ mem0' = mem
  /\ err0' = _errnum
  /\ nops' = nops + 1
  /\ UNCHANGED <<_type, _address, _page_write, _page_block_number, _size>>

CanCall == pc = "idle" /\ nops < MaxOps

Rec(name, address, length, data) ==
  [name |-> name, address |-> address, length |-> length, data |-> data]

WriteByte ==
  /\ CanCall
  /\ \E c \in Cases(Addresses, {0}), seed \in Seeds :
       Finish(writeByte(Start(c[2]), c[1], Data(seed, 0)), <<>>,
              Rec("writeByte", c[1], 1, Pattern(seed)))

WriteArray ==
  /\ CanCall
  /\ \E c \in Cases(Spans, {ProbeSpan}), seed \in Seeds :
       Finish(write(Start(c[2]), c[1][1], Pattern(seed), c[1][2]), <<>>,
              Rec("write", c[1][1], c[1][2], Pattern(seed)))

WriteShort ==
  /\ CanCall
  /\ \E c \in Cases(ScalarAddresses, {}), v \in Scalars :
       Finish(writeShort(Start(c[2]), c[1], v % U16), <<>>,
              Rec("writeShort", c[1], 2, Bytes(ScalarBytes(v % U16, 2))))

WriteLong ==
  /\ CanCall
  /\ \E c \in Cases(ScalarAddresses, {0}), v \in Scalars :
       Finish(writeLong(Start(c[2]), c[1], v), <<>>,
              Rec("writeLong", c[1], 4, Bytes(ScalarBytes(v, 4))))

WriteFloat ==
  /\ CanCall
  /\ \E c \in Cases(ScalarAddresses, {}), v \in Scalars :
       Finish(writeFloat(Start(c[2]), c[1], v), <<>>,
              Rec("writeFloat", c[1], 4, Bytes(ScalarBytes(v, 4))))

WriteAny ==
  /\ CanCall
  /\ \E c \in Cases({ProbeSpan, <<_size - 1, 2>>}, {}), alloc \in BOOLEAN,
        seed \in Seeds :
       Finish(writeAny(Start(c[2]), c[1][1], Pattern(seed), c[1][2], alloc), <<>>,
              Rec("writeAny", c[1][1], c[1][2], Pattern(seed)))

ReadByte ==
  /\ CanCall
  /\ \E c \in Cases(Addresses, {0}) :
       LET d0 == Start(c[2])
           d == readByte(d0, c[1])
       IN  Finish(d, Stored(d0, d, 1), Rec("readByte", c[1], 1, Pattern(0)))

ReadArray ==
  /\ CanCall
  /\ \E c \in Cases(ReadSpans, {ProbeSpan}) :
       LET d0 == Start(c[2])
           d == read(d0, c[1][1], c[1][2])
       IN  Finish(d, Stored(d0, d, c[1][2]),
                  Rec("read", c[1][1], c[1][2], Pattern(0)))

ReadCurrent ==
  /\ CanCall
  /\ \E c \in Cases({0}, {0}) :
       LET d0 == Start(c[2])
           d == readCurrent(d0)
       IN  Finish(d, Stored(d0, d, 1), Rec("readCurrent", 0, 1, Pattern(0)))

ReadShort ==
  /\ CanCall
  /\ \E c \in Cases(ScalarAddresses, {}) :
       LET r == readScalar(Start(c[2]), c[1], 2)
       IN  Finish(r[1], r[2], Rec("readShort", c[1], 2, Pattern(0)))

ReadLong ==
  /\ CanCall
  /\ \E c \in Cases(ScalarAddresses, {0}) :
       LET r == readScalar(Start(c[2]), c[1], 4)
       IN  Finish(r[1], r[2], Rec("readLong", c[1], 4, Pattern(0)))

ReadFloat ==
  /\ CanCall
  /\ \E c \in Cases(ScalarAddresses, {}) :
       LET r == readScalar(Start(c[2]), c[1], 4)
       IN  Finish(r[1], r[2], Rec("readFloat", c[1], 4, Pattern(0)))

ReadAny ==
  /\ CanCall
  /\ \E c \in Cases({ProbeSpan, <<_size - 1, 2>>}, {ProbeSpan}), alloc \in BOOLEAN :
       LET r == readAny(Start(c[2]), c[1][1], c[1][2], alloc)
       IN  Finish(r[1], r[2], Rec("readAny", c[1][1], c[1][2], Pattern(0)))

Clear ==
  /\ CanCall
  /\ _size <= MaxClearSize
  /\ \E c \in Cases({0}, {0}) :
       Finish(clear(Start(c[2])), <<>>, Rec("clear", 0, _size, Pattern(0)))

Ready ==
  /\ CanCall
  /\ \E c \in Cases({0}, {0}) :
       Finish(ready(Start(c[2])), <<>>, Rec("ready", 0, 0, Pattern(0)))

\* EEPROM::checkAddress called on its own: ret is <<the answer>>
CheckAddress ==
  /\ CanCall
  /\ \E a \in Addresses \cup ScalarAddresses \cup {_size - 2, _size + 1, UMax} :
       Finish(Start(OkEnv), <<checkAddress(a)>>,
              Rec("checkAddress", a, 0, Pattern(0)))

Next ==
  \/ Construct({0, 1, MaxCs})
  \/ WriteByte \/ WriteArray \/ WriteShort \/ WriteLong \/ WriteFloat \/ WriteAny
  \/ ReadByte \/ ReadArray \/ ReadCurrent \/ ReadShort \/ ReadLong \/ ReadFloat
  \/ ReadAny \/ Clear \/ Ready \/ CheckAddress

Spec == Init /\ [][Next]_vars

\* construction alone, over every chip-select value up to MaxCs
NextCtor == Construct(0..MaxCs)

SpecCtor == Init /\ [][NextCtor]_vars

\* ------------------------------------------------------------ properties
\* no transaction of the last operation was refused, the polls of a device
\* still busy with its write apart
NoBusFailure == \A k \in 1..Len(bus) : bus[k].ack = 0 \/ bus[k].kind = "poll"

\* the last operation began on a healthy device
Healthy == nops >= 1 /\ err0 = EEPROM_NoError

\* the last operation began healthy, returned, and left no fault
Succeeded == Healthy /\ pc = "idle" /\ _errnum = EEPROM_NoError /\ NoBusFailure

\* first address checkAddress refuses
EffectiveCapacity == IF _type = M24M02 THEN getSize - 1 ELSE getSize

\* the span of n >= 1 bytes (n a uint32_t) at address a (a uint32_t) lies
\* below the effective capacity
Contained(a, n) == a >= 0 /\ n >= 1 /\ n <= EffectiveCapacity - a

\* address a lies in the span of the last operation
InSpan(a) ==
  a - op.address >= 0 /\ (op.length < 0 \/ a - op.address < op.length)

\* cell the translation resolves logical address a to
LCell(a) == <<DeviceAddress(PageBlock(a)), WordOf(CmdAddress(BlockAddress(a)))>>

\* cell c is the cell of some address of the span of the last operation
SpanCell(c) ==
  \E b \in 0..(IF Stride = 0 THEN 0 ELSE _size \div Stride) :
    LET a == b * Stride + c[2]
    IN  InSpan(a) /\ LCell(a) = c

\* cells of the pages written so far
WrittenCells ==
  {<<pg[1], pg[2] * _page_write + j>> : pg \in DOMAIN mem, j \in 0..(_page_write - 1)}

\* page writes among the transactions of the last operation
PageWrites ==
  Cardinality({k \in 1..Len(bus) : bus[k].kind = "write" /\ bus[k].n = _page_write})

\* C1: a successful array write of an in-range span of length >= 1, read
\* back at once with the array read over the same span, returns exactly the
\* bytes written.
RoundTrip ==
  (op.name = "write" /\ Succeeded /\ Contained(op.address, op.length)
     /\ op.length <= MaxReadLen)
  => LET d == read(Start(OkEnv), op.address, op.length)
     IN  /\ d.err = EEPROM_NoError
         /\ \A k \in 0..(op.length - 1) : d.out[k] = DataAt(op.data, k)

\* the write of 10 bytes at address 250 of a T24C16 succeeded and the read
\* of the same span hands back another byte 6
RoundTripFailure ==
  /\ op.name = "write" /\ Succeeded /\ _type = T24C16
  /\ op.address = 250 /\ op.length = 10
  /\ read(Start(OkEnv), op.address, op.length).out[6] # DataAt(op.data, 6)

\* C2: after a successful array write every cell of the bus memory that is
\* not the cell of an address of the written span holds the byte it held
\* before the call.
PartialPagePreserved ==
  (op.name = "write" /\ Succeeded)
  => \A c \in WrittenCells : MemAt(mem, c) # MemAt(mem0, c) => SpanCell(c)

\* the write of 1 byte at address 300 of a T24C04 succeeded and changed
\* word 32 of block 1, the cell of address 287
PreservationFailure ==
  /\ op.name = "write" /\ Succeeded /\ _type = T24C04
  /\ op.address = 300 /\ op.length = 1
  /\ LCell(287) = <<DeviceAddress(1), 32>>
  /\ MemAt(mem, LCell(287)) # MemAt(mem0, LCell(287))

\* the last operation is one of those that check the error state on entry
Guarded == nops >= 1 /\ op.name # "checkAddress"

\* C3: an operation invoked while the error state is not NoError issues no
\* transaction and leaves the bus memory, the error state and every byte of
\* the caller's buffer as they were.
FaultedInert ==
  (Guarded /\ err0 # EEPROM_NoError)
  => /\ bus = <<>>
     /\ mem = mem0
     /\ _errnum = err0
     /\ \A k \in DOMAIN ret : ret[k] = Untouched

\* a faulted device ran the current address read
FaultedInertWitness ==
  Guarded /\ err0 = EEPROM_BadAddress /\ op.name = "readCurrent" /\ bus = <<>>

RangeValidated ==
  (Healthy /\ op.name \in {"write", "read"} /\ op.length # 0)
  => IF Contained(op.address, op.length)
     THEN \A i \in 1..Len(errs) : errs[i] # EEPROM_OutOfRange
     ELSE _errnum = EEPROM_OutOfRange /\ bus = <<>>

\* the write of 0xFFFFFFFF bytes at address 5 was accepted and reached the bus
WrappedSpanAccepted ==
  /\ op.name = "write" /\ Healthy /\ op.address = 5 /\ op.length = UMax
  /\ _errnum = EEPROM_NoError /\ bus # <<>>

\* C6: a successful array write of an in-range span issues exactly
\* ceil((length + address % page size) / page size) page writes.
ChunkCount ==
  (op.name = "write" /\ Succeeded /\ Contained(op.address, op.length))
  => PageWrites =
       (op.length + (op.address % _page_write) + _page_write - 1) \div _page_write

\* the write of 20 bytes at address 10 of a T24C16 took 2 page writes
ChunkCountExample ==
  op.name = "write" /\ Succeeded /\ _type = T24C16 /\ op.address = 10
    /\ op.length = 20 /\ PageWrites = 2

\* the write of the whole 8192 bytes of a T24C64 succeeded with 1 page write
ChunkCountFailure ==
  op.name = "write" /\ Succeeded /\ _type = T24C64 /\ op.address = 0
    /\ op.length = getSize /\ PageWrites = 1

\* C7 as stated: checkAddress(a) holds exactly for a below getSize() - 1 on
\* T24C1025 and M24M02 and below getSize() on the other variants.
SingleAddressBoundStated ==
  op.name = "checkAddress"
  => ret[1] = (op.address >= 0
               /\ op.address < (IF _type \in {T24C1025, M24M02}
                                THEN getSize - 1 ELSE getSize))

\* C7: checkAddress(a) holds exactly for a below getSize() - 1 on M24M02 and
\* below getSize() on the twelve other variants, T24C1025 included.
SingleAddressBound ==
  op.name = "checkAddress"
  => ret[1] = (op.address >= 0 /\ op.address < EffectiveCapacity)

\* checkAddress accepted the last byte of a T24C1025
SingleAddressBoundWitness ==
  op.name = "checkAddress" /\ _type = T24C1025 /\ op.address = getSize - 1
    /\ ret = <<TRUE>>

\* the full-capacity read that follows the last operation
FullRead == read(Start(OkEnv), 0, getSize)

\* C8: clear() on a healthy device with no refused transaction leaves the
\* error state at NoError and a zero in the cell of every address
\* 0 .. getSize() - 1, and the full-capacity read that follows returns zeros.
ClearZeroes ==
  (op.name = "clear" /\ Healthy /\ pc = "idle" /\ NoBusFailure)
  => /\ _errnum = EEPROM_NoError
     /\ \A a \in 0..(getSize - 1) : MemAt(mem, LCell(a)) = 0
     /\ FullRead.err = EEPROM_NoError
     /\ \A k \in 0..(getSize - 1) : FullRead.out[k] = 0

\* clear() of a T24C02 succeeded and the cell of address 255 is not zero
ClearFailure ==
  /\ op.name = "clear" /\ Succeeded /\ _type = T24C02
  /\ MemAt(mem, LCell(255)) # 0

\* largest chip-select value the variant's chip-select pins can carry
MaxChipSelect == IF _type = M24M02 THEN 1 ELSE IF _type > T24C512 THEN 3 ELSE 7

\* C9 as stated: construction records BadAddress exactly when the
\* chip-select value exceeds the variant's range, NoError otherwise, and
\* issues no transaction.
ConstructionFaultStated ==
  op.name = "EEPROM"
  => /\ _errnum = (IF op.address > MaxChipSelect
                   THEN EEPROM_BadAddress ELSE EEPROM_NoError)
     /\ bus = <<>>

\* C9: construction records BadAddress exactly when the variant is not
\* T24C16 and the chip-select value exceeds the variant's range, NoError
\* otherwise (T24C16 takes every value), and issues no transaction.
ConstructionFault ==
  op.name = "EEPROM"
  => /\ _errnum = (IF _type # T24C16 /\ op.address > MaxChipSelect
                   THEN EEPROM_BadAddress ELSE EEPROM_NoError)
     /\ bus = <<>>

\* a T24C16 was constructed with a chip-select value above 7
ConstructionFaultWitness ==
  op.name = "EEPROM" /\ _type = T24C16 /\ op.address > MaxChipSelect
    /\ _errnum = EEPROM_NoError

\* the last operation addressed the device at its own address argument
Addressed ==
  Healthy /\ op.name \in {"writeByte", "readByte", "read"} /\ bus # <<>>

\* device byte and word address bytes of logical address a when the block
\* stride is 255 for small, 65535 for large, and there is one block otherwise
Resolved(a, small, large) ==
  LET stride == IF small THEN 255 ELSE IF large THEN 65535 ELSE 0
      block == IF stride = 0 THEN 0 ELSE a \div stride
      inblock == IF stride = 0 THEN a ELSE a % stride
  IN  [dev |-> BitOr(BitOr(EEPROM_Address, _address), 2 * block) % U8,
       wa |-> IF small THEN <<inblock>> ELSE <<inblock \div U8, inblock % U8>>]

\* C10 as stated: the stride is 255 with a 1-byte word address when the page
\* size is below 32, 65535 when the page size is above 128, and the block is
\* 0 for the page sizes between.
TranslationByPageSize ==
  Addressed
  => LET r == Resolved(op.address, _page_write < 32, _page_write > 128)
     IN  bus[1].dev = r.dev /\ bus[1].wa = r.wa

\* C10: the stride is 255 with a 1-byte word address when the page size is
\* below 32, 65535 on T24C1024, T24C1025 (page size 128) and M24M02, and the
\* block is 0 on the variants between; the device byte is the base address
\* or-ed with block << 1 and the word address is 2 bytes MSB-first unless
\* the page size is below 32.
TranslationByVariant ==
  Addressed
  => LET r == Resolved(op.address, _page_write < 32,
                       _type \in {T24C1024, T24C1025, M24M02})
     IN  bus[1].dev = r.dev /\ bus[1].wa = r.wa

\* a byte read of a T24C1024 at address 65535 went to block 1, word 0
TranslationByVariantWitness ==
  Addressed /\ op.name = "readByte" /\ _type = T24C1024 /\ op.address = 65535
    /\ bus[1].dev = BitOr(BitOr(EEPROM_Address, _address), 2) /\ bus[1].wa = <<0, 0>>

\* transaction k of the last operation was refused, the polls of a device
\* still busy with its write apart
Refused(k) == bus[k].ack # 0 /\ bus[k].kind # "poll"

\* C11: in an array write begun on a healthy device, a refused transaction
\* (the address-set write or the read of the page to merge, or a page write)
\* is the last transaction of the call and leaves the error state at the bus
\* error.
AbortOnRefusal ==
  (op.name = "write" /\ Healthy)
  => \A k \in 1..Len(bus) :
       Refused(k) => k = Len(bus) /\ _errnum = EEPROM_I2cError

\* the address-set write of the first page read was refused and the array
\* write went on to write that page and a later one
AbortOnRefusalFailure ==
  /\ op.name = "write" /\ Healthy /\ Len(bus) >= 3
  /\ Refused(1) /\ bus[1].n = 0
  /\ bus[2].kind = "write" /\ bus[2].n = _page_write /\ bus[2].ack = 0
  /\ bus[3].kind = "write" /\ bus[3].n = _page_write
  /\ _errnum = EEPROM_I2cError

\* transaction k of the last operation is a page write
IsPageWrite(k) == bus[k].kind = "write" /\ bus[k].n = _page_write

\* transaction k is a page write that follows an address-set write and a read
ReadBefore(k) ==
  k >= 3 /\ bus[k - 2].kind = "write" /\ bus[k - 2].n = 0 /\ bus[k - 1].kind = "read"

\* the chunk whose page write is transaction k starts off the page boundary
\* or has less than a page left to write
PartialChunk(k) ==
  LET j == Cardinality({i \in 1..k : IsPageWrite(i)})
      start == IF j = 1 THEN op.address
               ELSE op.address - (op.address % _page_write) + (j - 1) * _page_write
  IN  start % _page_write # 0 \/ op.address + op.length - start < _page_write

\* C12: in a successful array write a chunk that starts on a page boundary
\* with at least a page left is written with no read before it; every other
\* chunk is preceded by a read of exactly one page from the device byte and
\* the page-aligned word address that its page write then goes to.
MergeReadsWrittenPage ==
  (op.name = "write" /\ Succeeded /\ Contained(op.address, op.length))
  => \A k \in 1..Len(bus) :
       IsPageWrite(k)
       => /\ ReadBefore(k) <=> PartialChunk(k)
          /\ ReadBefore(k)
             => /\ bus[k - 1].n = _page_write
                /\ bus[k - 1].dev = bus[k].dev
                /\ bus[k - 2].dev = bus[k].dev
                /\ bus[k - 2].wa = bus[k].wa

\* the write of 1 byte at address 300 of a T24C04 read the page at word 32
\* of block 0 and wrote the page at word 32 of block 1
MergeReadsOtherBlock ==
  /\ op.name = "write" /\ Succeeded /\ _type = T24C04
  /\ op.address = 300 /\ op.length = 1
  /\ IsPageWrite(3) /\ ReadBefore(3)
  /\ bus[1].wa = bus[3].wa
  /\ bus[1].dev = DeviceAddress(0) /\ bus[2].dev = DeviceAddress(0)
  /\ bus[3].dev = DeviceAddress(1)

\* the write of 20 bytes at address 10 of a T24C16 read each of its two
\* pages from the place it then wrote
MergeReadsSamePage ==
  /\ op.name = "write" /\ Succeeded /\ _type = T24C16
  /\ op.address = 10 /\ op.length = 20
  /\ \A k \in {3, 7} :
       /\ IsPageWrite(k) /\ ReadBefore(k)
       /\ bus[k - 2].dev = bus[k].dev /\ bus[k - 2].wa = bus[k].wa

\* page writes k < l of the last operation with no page write between them
NextPageWrite(k, l) ==
  /\ k < l /\ IsPageWrite(k) /\ IsPageWrite(l)
  /\ \A i \in (k + 1)..(l - 1) : ~IsPageWrite(i)

\* the page write l serves a later logical address than the page write k
LaterChunk(k, l) == bus[k].la >= 0 /\ bus[k].la < bus[l].la

\* an acknowledged ready poll comes after the page write k, before any other
\* transaction
PolledAfter(k) ==
  \E i \in (k + 1)..Len(bus) :
    /\ bus[i].kind = "poll" /\ bus[i].ack = 0
    /\ \A h \in (k + 1)..(i - 1) : bus[h].kind = "poll"

\* C13: within one array write the page writes are issued in strictly
\* increasing order of the logical address they serve, and after each page write that is followed by another chunk an
\* acknowledged ready poll comes before that chunk's first transaction.
OrderedAndPolled ==
  (op.name = "write" /\ Healthy)
  => \A k, l \in 1..Len(bus) :
       NextPageWrite(k, l) => LaterChunk(k, l) /\ PolledAfter(k)

\* two page writes of one array write with no ready poll between them, after
\* the read of the first page was refused
UnpolledPageWrites ==
  /\ op.name = "write" /\ Healthy /\ Len(bus) >= 3
  /\ Refused(1)
  /\ IsPageWrite(2) /\ bus[2].ack = 0 /\ IsPageWrite(3)

\* C13 where it holds: the same, in an array write none of whose
\* transactions was refused.
OrderedAndPolledUnrefused ==
  (op.name = "write" /\ Healthy /\ NoBusFailure)
  => \A k, l \in 1..Len(bus) :
       NextPageWrite(k, l) => LaterChunk(k, l) /\ PolledAfter(k)

\* C14: an array write of an in-range span on a healthy device returns, the
\* device acknowledging each ready poll after finitely many refusals.
WriteReturns ==
  (op.name = "write" /\ Healthy /\ Contained(op.address, op.length))
  => pc = "idle"

\* the write of one whole page at address 0 of an M24M02 is inside the loop
\* that splices the caller's bytes and never leaves it
WriteNeverReturns ==
  /\ op.name = "write" /\ Healthy /\ _type = M24M02
  /\ op.address = 0 /\ op.length = _page_write
  /\ Contained(op.address, op.length)
  /\ pc = "hung" /\ bus = <<>> /\ _errnum = EEPROM_NoError

\* transaction k of the last operation is a page write of the array write
IsChunkWrite(k) == "la" \in DOMAIN bus[k]

\* C15: every page write the array write issues carries a word address that
\* is a multiple of the page size, in the variant's number of address bytes,
\* and exactly one page of data, and the caller's bytes went into its buffer
\* at positions at .. at + cnt - 1 with at the offset of the chunk in its
\* page and at + cnt at most the page size.
PageRespecting ==
  \A k \in 1..Len(bus) :
    IsChunkWrite(k)
    => /\ bus[k].kind = "write"
       /\ bus[k].n = _page_write
       /\ Len(bus[k].wa) = AddrLen
       /\ WordOf(bus[k].wa) % _page_write = 0
       /\ bus[k].at = BlockAddress(bus[k].la) - WordOf(bus[k].wa)
       /\ bus[k].at >= 0 /\ bus[k].cnt >= 0
       /\ bus[k].at + bus[k].cnt <= _page_write

\* the write of 20 bytes at address 10 of a T24C16 sent the page at word 0
\* with 6 bytes from position 10, then the page at word 16 with 14 bytes
\* from position 0
PageRespectingWitness ==
  /\ op.name = "write" /\ Succeeded /\ _type = T24C16
  /\ op.address = 10 /\ op.length = 20 /\ Len(bus) = 8
  /\ IsChunkWrite(3) /\ bus[3].wa = <<0>> /\ bus[3].at = 10 /\ bus[3].cnt = 6
  /\ IsChunkWrite(7) /\ bus[7].wa = <<16>> /\ bus[7].at = 0 /\ bus[7].cnt = 14

\* page write k of the array write was refused
FailedChunk(k) == IsChunkWrite(k) /\ bus[k].ack # 0

\* page the page write k went to
ChunkPage(k) == PageOf(<<bus[k].dev, WordOf(bus[k].wa)>>)

\* C16: when a page write of the array write is refused, the write returns
\* at once with EEPROM_I2cError, the pages of the chunks before it hold the
\* caller's bytes, and the page of the refused chunk and every page no
\* earlier chunk went to hold what they held before the call.
NoRollback ==
  (op.name = "write" /\ Healthy)
  => \A k \in 1..Len(bus) :
       FailedChunk(k)
       => /\ k = Len(bus) /\ pc = "idle" /\ _errnum = EEPROM_I2cError
          /\ \A i \in 1..(k - 1) :
               IsChunkWrite(i)
               => /\ bus[i].ack = 0
                  /\ \A j \in 0..(bus[i].cnt - 1) :
                       MemAt(mem, <<bus[i].dev, WordOf(bus[i].wa) + bus[i].at + j>>)
                         = DataAt(op.data, bus[i].la - op.address + j)
          /\ PageAt(mem, ChunkPage(k)) = PageAt(mem0, ChunkPage(k))
          /\ \A pg \in DOMAIN mem :
               \/ \E i \in 1..(k - 1) : IsChunkWrite(i) /\ ChunkPage(i) = pg
               \/ PageAt(mem, pg) = PageAt(mem0, pg)

\* the write of 20 bytes at address 10 of a T24C16 stored its first 6 bytes
\* in the page at word 0, then the page write at word 16 was refused
NoRollbackWitness ==
  /\ op.name = "write" /\ Healthy /\ _type = T24C16
  /\ op.address = 10 /\ op.length = 20 /\ Len(bus) = 7
  /\ IsChunkWrite(3) /\ bus[3].ack = 0 /\ bus[3].cnt = 6
  /\ FailedChunk(7) /\ bus[7].wa = <<16>>
  /\ _errnum = EEPROM_I2cError
  /\ MemAt(mem, <<bus[3].dev, 10>>) = DataAt(op.data, 0)
  /\ MemAt(mem, <<bus[3].dev, 10>>) # MemAt(mem0, <<bus[3].dev, 10>>)

\* the array write of the one byte of the last operation, at its address,
\* from the device state the last operation began in, nothing refused
ArrayWriteOfByte ==
  write([Start(OkEnv) EXCEPT !.mem = mem0, !.err = err0], op.address, op.data, 1)

\* C17: after a successful byte write at an address the bounds check
\* accepts, the array write of the same byte at the same address, from the
\* same device memory and with nothing refused, leaves the same device
\* memory and the same error state.
ByteWriteAsArrayWrite ==
  (op.name = "writeByte" /\ Succeeded /\ checkAddress(op.address))
  => LET d == ArrayWriteOfByte
     IN  /\ d.err = _errnum
         /\ \A pg \in DOMAIN d.mem \cup DOMAIN mem :
              PageAt(d.mem, pg) = PageAt(mem, pg)

\* the byte write at address 255 of a T24C04 changed word 0 of block 1
\* alone; the array write of that byte also copies words 1 .. 15 of block
\* 0 over words 1 .. 15 of block 1
ByteWriteAsArrayWriteFailure ==
  /\ op.name = "writeByte" /\ Succeeded /\ _type = T24C04 /\ _address = 0
  /\ op.address = 255 /\ checkAddress(op.address)
  /\ ArrayWriteOfByte.err = _errnum
  /\ MemAt(mem, <<162, 0>>) = DataAt(op.data, 0)
  /\ MemAt(ArrayWriteOfByte.mem, <<162, 0>>) = DataAt(op.data, 0)
  /\ MemAt(mem, <<162, 1>>) = MemAt(mem0, <<162, 1>>)
  /\ MemAt(ArrayWriteOfByte.mem, <<162, 1>>) = MemAt(mem0, <<160, 1>>)
  /\ MemAt(mem0, <<160, 1>>) # MemAt(mem0, <<162, 1>>)

\* C18: an array write of length 0 at an address the bounds check accepts,
\* on a healthy device and with nothing refused, leaves the error state at
\* EEPROM_NoError and every byte of device memory as it was.
ZeroLengthInert ==
  (op.name = "write" /\ Healthy /\ NoBusFailure /\ pc = "idle"
     /\ checkAddress(op.address) /\ op.length = 0)
  => /\ _errnum = EEPROM_NoError
     /\ \A pg \in DOMAIN mem : PageAt(mem, pg) = PageAt(mem0, pg)

\* the array write of length 0 at address 0 failed the bounds check of its
\* last byte, address 0 + 0 - 1 = 0xFFFFFFFF, before any transaction
ZeroLengthOutOfRange ==
  /\ op.name = "write" /\ Healthy /\ pc = "idle"
  /\ op.address = 0 /\ op.length = 0 /\ checkAddress(op.address)
  /\ ~checkAddress(Sub32(Add32(op.address, op.length), 1))
  /\ _errnum = EEPROM_OutOfRange /\ bus = <<>>
  /\ mem = mem0

\* the bits of the bus device address that select among the blocks of the
\* variant: block count - 1, one place up
BlockField == Shl(_page_block_number - 1, 1)

\* C19: when an operation addresses the device at a logical address the
\* bounds check accepts, the block index of the address is below the
\* variant's block count, and the device address sent differs from
\* EEPROM_Address | _address in the block-select bits at most.
BlockInsideChip ==
  (Addressed /\ checkAddress(op.address))
  => /\ PageBlock(op.address) < _page_block_number
     /\ BitAnd(bus[1].dev, 255 - BlockField)
          = BitAnd(BitOr(EEPROM_Address, _address), 255 - BlockField)

\* the byte write at address 255 of a T24C02 with chip-select 0 resolved to
\* block 1 of a one-block variant and went to device address 162, the
\* address of the chip with chip-select 1
BlockOutsideChip ==
  /\ Addressed /\ op.name = "writeByte" /\ _type = T24C02 /\ _address = 0
  /\ op.address = 255 /\ checkAddress(op.address)
  /\ _page_block_number = 1 /\ PageBlock(op.address) = 1
  /\ bus[1].dev = 162 /\ bus[1].ack = 0 /\ _errnum = EEPROM_NoError

\* the accepted logical addresses with the in-block address of a: the only
\* ones whose word address can be that of a
SameWord(a) ==
  {b \in {k * Stride + BlockAddress(a) :
            k \in 0..(IF Stride = 0 THEN 0 ELSE _size \div Stride)} :
     checkAddress(b)}

\* C20: when an operation addresses the device at a logical address the
\* bounds check accepts, no other accepted logical address resolves to the
\* device address and word address it sent.
NoAliasing ==
  (Addressed /\ checkAddress(op.address))
  => \A b \in SameWord(op.address) :
       b # op.address => LCell(b) # <<bus[1].dev, WordOf(bus[1].wa)>>

\* the byte write at address 255 of a T24C02 with chip-select 1 went to
\* device address 162, word 0, where address 0 resolves as well
Aliased ==
  /\ Addressed /\ op.name = "writeByte" /\ _type = T24C02 /\ _address = 2
  /\ op.address = 255 /\ checkAddress(op.address) /\ checkAddress(0)
  /\ bus[1].dev = 162 /\ bus[1].wa = <<0>> /\ bus[1].ack = 0
  /\ LCell(0) = <<162, 0>>
  /\ MemAt(mem, LCell(0)) = DataAt(op.data, 0)
=============================================================================
